---- MODULE Spec2Model ----
(***************************************************************************)
(* A model of the Monte Carlo Tree Search engine of pickomino_solve:       *)
(*   backend/src/game.py          GameState, Action                        *)
(*   backend/src/tree.py          Node, MCTS                               *)
(*   backend/src/parallel_tree.py ParallelMCTS, simulate_worker            *)
(* and of the test collaborators of backend/tests that subclass GameState. *)
(*                                                                         *)
(* Conventions.  None is 0 (an Action's optional_args, a Node's parent).   *)
(* A Python list is a sequence; a dict is a sequence of key/value records  *)
(* in insertion order.  The tree is the sequence of the Node objects in    *)
(* creation order, a node being named by its index; the root is node 1.    *)
(* Scores are the integers the game produces (sums of dice faces), and an  *)
(* average Q / N is kept as the exact fraction in lowest terms.            *)
(***************************************************************************)
EXTENDS Integers, Sequences, FiniteSets, Bags, TLC

(***************************************************************************)
(* Bounds of the model.                                                    *)
(***************************************************************************)
\* The most simulations one engine instance runs, over all its run calls.
MaxSims == 4
\* The largest batch_size passed to run_parallel.
MaxBatch == 2
\* The largest monitor_interval passed to run.
MaxInterval == 2
\* The most dice an initial GameState leaves to roll.
MaxDice == 2

(***************************************************************************)
(* game.py: Action                                                         *)
(***************************************************************************)
ROLL == "Roll dice"
STOP == "Stop round"
SAVE_DICE == "Save dice"
BUST == "Bust"

Action(name, optional_args) == [name |-> name, optional_args |-> optional_args]

\* The two actions of the two-action scenario collaborator.
ActA == Action("A", 0)
ActB == Action("B", 0)

(***************************************************************************)
(* game.py: GameState, and the collaborators of the tests.  A state is a   *)
(* record; kind names the class whose methods act on it.                   *)
(***************************************************************************)
N_DICE == 8
DIE == 1..6

GameState(hand, dice_throw, score) ==
    [kind |-> "GameState", hand |-> hand, dice_throw |-> dice_throw,
     score |-> score, stopped_round |-> FALSE, actions |-> <<>>]

TerminalTestGameState(hand, score, stopped_round) ==
    [kind |-> "TerminalTestGameState", hand |-> hand, dice_throw |-> <<>>,
     score |-> score, stopped_round |-> stopped_round, actions |-> <<>>]

DummyGameState(stopped_round, score, actions) ==
    [kind |-> "DummyGameState", hand |-> <<>>, dice_throw |-> <<>>,
     score |-> score, stopped_round |-> stopped_round, actions |-> actions]

\* The collaborator of the two-action scenario: the score is the number of
\* actions taken.  At the root A ends the game at once, with score 1, and B
\* leads on to a state whose one legal action, B, ends it with score 2.
TwoActionState(score, stopped_round) ==
    [kind |-> "TwoActionState", hand |-> <<>>, dice_throw |-> <<>>,
     score |-> score, stopped_round |-> stopped_round, actions |-> <<>>]

Range(s) == {s[k] : k \in 1..Len(s)}

_die_in_hand(s, die) == die \in Range(s.hand)

\* The elements of a set of integers as an ascending sequence: the order in
\* which CPython iterates a set of the small integers 1..6.
RECURSIVE SetToSeq(_)
SetToSeq(S) ==
    IF S = {} THEN <<>>
    ELSE LET m == CHOOSE x \in S : \A y \in S : x <= y
         IN <<m>> \o SetToSeq(S \ {m})

GameState_get_available_actions(s) ==
    IF s.stopped_round THEN <<>>
    ELSE IF s.dice_throw = <<>> THEN <<Action(ROLL, 0), Action(STOP, 0)>>
    ELSE IF Len(s.hand) >= N_DICE THEN <<Action(STOP, 0)>>
    ELSE LET die_options == {d \in Range(s.dice_throw) : ~_die_in_hand(s, d)}
             opts == SetToSeq(die_options)
         IN IF die_options = {} THEN <<Action(BUST, 0)>>
            ELSE [k \in 1..Len(opts) |-> Action(SAVE_DICE, opts[k])]

get_available_actions(s) ==
    CASE s.kind = "GameState" -> GameState_get_available_actions(s)
      [] s.kind = "TerminalTestGameState" ->
            IF s.stopped_round THEN <<>> ELSE <<Action(STOP, 0)>>
      [] s.kind = "DummyGameState" -> s.actions
      [] s.kind = "TwoActionState" ->
            IF s.stopped_round THEN <<>>
            ELSE IF s.score = 0 THEN <<ActA, ActB>>
            ELSE <<ActB>>

\* sorted(roll)
RECURSIVE Sorted(_)
Sorted(s) ==
    IF s = <<>> THEN <<>>
    ELSE LET m == CHOOSE x \in Range(s) : \A y \in Range(s) : x <= y
             k == CHOOSE j \in 1..Len(s) : s[j] = m
         IN <<m>> \o Sorted(SubSeq(s, 1, k - 1) \o SubSeq(s, k + 1, Len(s)))

\* The rolls execute_action can draw: dice_count dice, each random.choice(DIE),
\* then sorted.  range() of a negative count is empty.
Rolls(s) ==
    LET dice_count == IF N_DICE - Len(s.hand) > 0 THEN N_DICE - Len(s.hand) ELSE 0
    IN {Sorted(r) : r \in [1..dice_count -> DIE]}

\* The states apply_roll_outcome(roll) can return: none when it raises, on a
\* dice_throw that is not empty.
apply_roll_outcome(s, roll) ==
    IF s.dice_throw # <<>> THEN {}
    ELSE {[s EXCEPT !.dice_throw = Sorted(roll)]}

\* The dice of the throw equal to d, appended to the hand one by one.
RECURSIVE SaveInto(_, _, _)
SaveInto(hand, throw, d) ==
    IF throw = <<>> THEN hand
    ELSE SaveInto(IF Head(throw) = d THEN Append(hand, d) ELSE hand, Tail(throw), d)

RECURSIVE StopScore(_)
StopScore(hand) ==
    IF hand = <<>> THEN 0
    ELSE (IF Head(hand) = 6 THEN 5 ELSE Head(hand)) + StopScore(Tail(hand))

\* A transition whose BUST takes a point off the score.
BustCostsAPoint(s, action) ==
    CASE action.name = ROLL ->
            IF s.dice_throw # <<>> THEN {}
            ELSE UNION {apply_roll_outcome(s, roll) : roll \in Rolls(s)}
      [] action.name = SAVE_DICE ->
            {[s EXCEPT !.hand = SaveInto(s.hand, s.dice_throw, action.optional_args),
                       !.dice_throw = <<>>]}
      [] action.name = BUST ->
            {[s EXCEPT !.score = s.score - 1, !.stopped_round = TRUE]}
      [] action.name = STOP ->
            {[s EXCEPT !.score = s.score + StopScore(s.hand), !.stopped_round = TRUE]}
      [] OTHER -> {s}

\* The states execute_action(action) can return: one per roll for ROLL (which
\* raises on a non-empty dice_throw: no state), one otherwise.
GameState_execute_action(s, action) ==
    CASE action.name = ROLL ->
            IF s.dice_throw # <<>> THEN {}
            ELSE UNION {apply_roll_outcome(s, roll) : roll \in Rolls(s)}
      [] action.name = SAVE_DICE ->
            {[s EXCEPT !.hand = SaveInto(s.hand, s.dice_throw, action.optional_args),
                       !.dice_throw = <<>>]}
      [] action.name = BUST ->
            {[s EXCEPT !.score = 0, !.stopped_round = TRUE]}
      [] action.name = STOP ->
            {[s EXCEPT !.score = s.score + StopScore(s.hand), !.stopped_round = TRUE]}
      [] OTHER -> {s}

execute_action(s, action) ==
    CASE s.kind = "GameState" -> GameState_execute_action(s, action)
      [] s.kind = "TerminalTestGameState" ->
            IF action.name = STOP
            THEN {TerminalTestGameState(s.hand, s.score, TRUE)}
            ELSE {s}
      [] s.kind = "DummyGameState" -> {DummyGameState(TRUE, s.score + 1, <<>>)}
      [] s.kind = "TwoActionState" ->
            {TwoActionState(s.score + 1, action = ActA \/ s.score + 1 >= 2)}

\* The receiver of execute_action after the call: every transition works on
\* copy.deepcopy(self) or builds a new object, so the receiver is as before.
ReceiverAliased(s, action, new_state) == new_state
ReceiverAfter(s, action, new_state) == s

(***************************************************************************)
(* game.py: get_possible_rolls.  The sorted rolls of num_dice dice in the  *)
(* order of combinations_with_replacement, each with its multinomial       *)
(* weight; the probability of a roll is weight / total.                    *)
(***************************************************************************)
RECURSIVE Combs(_, _)
Combs(num_dice, low) ==
    IF num_dice = 0 THEN << <<>> >>
    ELSE IF low > 6 THEN <<>>
    ELSE LET rest == Combs(num_dice - 1, low)
         IN [k \in 1..Len(rest) |-> <<low>> \o rest[k]] \o Combs(num_dice, low + 1)

RECURSIVE Factorial(_)
Factorial(n) == IF n <= 1 THEN 1 ELSE n * Factorial(n - 1)

RECURSIVE Product(_, _)
Product(f, S) ==
    IF S = {} THEN 1
    ELSE LET x == CHOOSE y \in S : TRUE IN f[x] * Product(f, S \ {x})

RECURSIVE Power(_, _)
Power(b, e) == IF e = 0 THEN 1 ELSE b * Power(b, e - 1)

Weight(roll) ==
    LET counts == [f \in Range(roll) |-> Cardinality({k \in 1..Len(roll) : roll[k] = f})]
        denominator == Product([f \in Range(roll) |-> Factorial(counts[f])], Range(roll))
    IN Factorial(Len(roll)) \div denominator

get_possible_rolls(s) ==
    LET num_dice == N_DICE - Len(s.hand)
        combs == IF num_dice <= 0 THEN <<>> ELSE Combs(num_dice, 1)
    IN [k \in 1..Len(combs) |->
            [roll |-> combs[k], weight |-> Weight(combs[k]),
             total |-> Power(6, num_dice)]]

(***************************************************************************)
(* tree.py: Node                                                           *)
(***************************************************************************)
Node(state, parent, action_taken) ==
    [state |-> state, parent |-> parent, action_taken |-> action_taken,
     children |-> <<>>, N |-> 0, Q |-> 0,
     unvisited_actions |-> get_available_actions(state)]

is_fully_expanded(node) == Len(node.unvisited_actions) = 0

is_terminal_node(node) == node.state.stopped_round

\* dict[key] = value: an existing key keeps its place, a new one goes last.
DictSet(d, key, value) ==
    IF \E k \in 1..Len(d) : d[k].key = key
    THEN [k \in 1..Len(d) |-> IF d[k].key = key THEN [key |-> key, value |-> value] ELSE d[k]]
    ELSE Append(d, [key |-> key, value |-> value])

DictHas(d, key) == \E k \in 1..Len(d) : d[k].key = key

DictGet(d, key, default) ==
    IF DictHas(d, key) THEN d[CHOOSE k \in 1..Len(d) : d[k].key = key].value
    ELSE default

\* A removal that leaves a ROLL in the list.
RemoveUnlessRoll(s, x) ==
    IF x.name = ROLL THEN s
    ELSE LET k == CHOOSE j \in 1..Len(s) : s[j] = x /\ \A h \in 1..(j - 1) : s[h] # x
         IN SubSeq(s, 1, k - 1) \o SubSeq(s, k + 1, Len(s))

\* list.remove(x): the list without the first element equal to x.
RemoveFirst(s, x) ==
    LET k == CHOOSE j \in 1..Len(s) : s[j] = x /\ \A h \in 1..(j - 1) : s[h] # x
    IN SubSeq(s, 1, k - 1) \o SubSeq(s, k + 1, Len(s))

(***************************************************************************)
(* tree.py: MCTS._select.  The UCB1 score of a child is                    *)
(* Q / N + c_param * sqrt(ln(parent N) / N).  The model keeps a score as   *)
(* the numbers it is computed from and decides "ucb > best_ucb" exactly:   *)
(* with c_param = c * sqrt(2), and for scores of the same parent,          *)
(*   Q1/N1 + c_param*sqrt(ln P/N1) > Q2/N2 + c_param*sqrt(ln P/N2)         *)
(* iff Q1*N2 - Q2*N1 > c * sqrt(2 ln P) * (N1*sqrt(N2) - N2*sqrt(N1)),     *)
(* where the left side is an integer and the right side is 0 or            *)
(* irrational, so that the test is Q1*N2 - Q2*N1 > floor(right side).      *)
(* The floor is computed on numbers of limbs of Base, little-endian, from  *)
(* tables of sqrt(2 ln n) and sqrt(n) for n = 1..32.                       *)
(***************************************************************************)
VARIABLE c_param      \* self.c_param of the engine, in units of sqrt(2)

\* c_param of MCTS.__init__ by default, and of the engine main.py builds.
DefaultCParam == 1
MainCParam == 200

Base == 10000

\* floor(Base^3 * sqrt(2 ln n)) for n = 1..32
SqrtTwoLn ==
    <<<<0, 0, 0, 0>>, <<2515, 1002, 1774, 1>>, <<7367, 380, 4823, 1>>, <<2315, 922, 6651, 1>>,
      <<7994, 2257, 7941, 1>>, <<2824, 1847, 8930, 1>>, <<2248, 6970, 9727, 1>>, <<337, 3398, 393, 2>>,
      <<7936, 9414, 962, 2>>, <<6289, 6602, 1459, 2>>, <<7170, 2934, 1899, 2>>, <<7274, 780, 2293, 2>>,
      <<1243, 2797, 2649, 2>>, <<7359, 1477, 2974, 2>>, <<4327, 5168, 3272, 2>>, <<5030, 2004, 3548, 2>>,
      <<6735, 2573, 3804, 2>>, <<1961, 1768, 4043, 2>>, <<4284, 104, 4267, 2>>, <<680, 4683, 4477, 2>>,
      <<262, 9901, 4675, 2>>, <<9808, 7987, 4863, 2>>, <<8162, 9416, 5041, 2>>, <<8011, 3221, 5211, 2>>,
      <<2359, 7248, 5372, 2>>, <<4871, 8350, 5526, 2>>, <<6613, 2550, 5674, 2>>, <<9122, 5166, 5815, 2>>,
      <<742, 918, 5951, 2>>, <<6567, 4009, 6081, 2>>, <<339, 8205, 6206, 2>>, <<7734, 6884, 6327, 2>>>>

\* floor(Base^3 * sqrt(n)) for n = 1..32
SqrtOf ==
    <<<<0, 0, 0, 1>>, <<2373, 1356, 4142, 1>>, <<7568, 5080, 7320, 1>>, <<0, 0, 0, 2>>,
      <<7499, 6797, 2360, 2>>, <<2783, 8974, 4494, 2>>, <<1064, 5131, 6457, 2>>, <<4746, 2712, 8284, 2>>,
      <<0, 0, 0, 3>>, <<168, 7766, 1622, 3>>, <<355, 2479, 3166, 3>>, <<5137, 161, 4641, 3>>,
      <<5463, 5127, 6055, 3>>, <<6773, 5738, 7416, 3>>, <<6207, 8334, 8729, 3>>, <<0, 0, 0, 4>>,
      <<5617, 562, 1231, 4>>, <<7119, 4068, 2426, 4>>, <<3540, 9894, 3588, 4>>, <<4999, 3595, 4721, 4>>,
      <<4955, 7569, 5825, 4>>, <<9823, 1575, 6904, 4>>, <<3312, 3152, 7958, 4>>, <<5566, 7948, 8989, 4>>,
      <<0, 0, 0, 5>>, <<3592, 1951, 990, 5>>, <<2706, 5242, 1961, 5>>, <<2129, 262, 2915, 5>>,
      <<7134, 6480, 3851, 5>>, <<5051, 2557, 4772, 5>>, <<2830, 6436, 5677, 5>>, <<9492, 5424, 6568, 5>>>>

\* The limbs of x from limb k on brought into 0..Base-1, with carry c; the
\* last carry is one more limb, which holds the sign.
RECURSIVE Carry(_, _, _)
Carry(x, k, c) ==
    IF k > Len(x) THEN <<c>>
    ELSE LET v == x[k] + c
         IN <<v - Base * (v \div Base)>> \o Carry(x, k + 1, v \div Base)

\* Limb k of the product of x and y: the sum of x[i] * y[k + 1 - i] for i <= n.
RECURSIVE ProductLimb(_, _, _, _)
ProductLimb(x, y, k, n) ==
    IF n = 0 THEN 0
    ELSE (IF k + 1 - n \in 1..Len(y) THEN x[n] * y[k + 1 - n] ELSE 0)
         + ProductLimb(x, y, k, n - 1)

Product2(x, y) == [k \in 1..(Len(x) + Len(y) - 1) |-> ProductLimb(x, y, k, Len(x))]

\* The number made of the limbs of x from limb k on.
RECURSIVE High(_, _)
High(x, k) == IF k > Len(x) THEN 0 ELSE x[k] + Base * High(x, k + 1)

\* floor(c * sqrt(2 ln P) * (N1 * sqrt(N2) - N2 * sqrt(N1)))
UcbThreshold(P, N1, N2, c) ==
    LET d == Carry([k \in 1..4 |-> c * N1 * SqrtOf[N2][k] - c * N2 * SqrtOf[N1][k]], 1, 0)
    IN High(Carry(Product2(SqrtTwoLn[P], d), 1, 0), 7)

\* float("inf") and -float("inf")
Inf == [Q |-> 0, N |-> 0, parent_N |-> 0, c_param |-> 0, inf |-> 1]
NegInf == [Q |-> 0, N |-> 0, parent_N |-> 0, c_param |-> 0, inf |-> -1]

\* The score of child under current_node; math.log(0) raises: no score.
Ucb(child, current_node) ==
    IF child.N = 0 THEN Inf
    ELSE [Q |-> child.Q, N |-> child.N, parent_N |-> current_node.N,
          c_param |-> c_param, inf |-> 0]

\* "ucb > best_ucb" of two scores under the same parent
UcbGreater(ucb, best_ucb) ==
    IF ucb.inf # 0 \/ best_ucb.inf # 0 THEN ucb.inf > best_ucb.inf
    ELSE ucb.Q * best_ucb.N - best_ucb.Q * ucb.N
            > UcbThreshold(ucb.parent_N, ucb.N, best_ucb.N, ucb.c_param)

\* The loop with "ucb >= best_ucb": the last of the best children wins.
RECURSIVE BestChildLastTie(_, _, _)
BestChildLastTie(t, current_node, k) ==
    IF k = 0 THEN [best_ucb |-> NegInf, best_child |-> 0]
    ELSE LET before == BestChildLastTie(t, current_node, k - 1)
             child == t[current_node].children[k].value
         IN IF is_terminal_node(t[child]) THEN before
            ELSE IF ~UcbGreater(before.best_ucb, Ucb(t[child], t[current_node]))
                 THEN [best_ucb |-> Ucb(t[child], t[current_node]), best_child |-> child]
                 ELSE before

\* The loop without "if child.is_terminal_node(): continue".
RECURSIVE BestChildTerminalToo(_, _, _)
BestChildTerminalToo(t, current_node, k) ==
    IF k = 0 THEN [best_ucb |-> NegInf, best_child |-> 0]
    ELSE LET before == BestChildTerminalToo(t, current_node, k - 1)
             child == t[current_node].children[k].value
         IN IF UcbGreater(Ucb(t[child], t[current_node]), before.best_ucb)
            THEN [best_ucb |-> Ucb(t[child], t[current_node]), best_child |-> child]
            ELSE before

\* The for loop over children.items(): the best child so far after the first
\* k entries, 0 for None.
RECURSIVE BestChild(_, _, _)
BestChild(t, current_node, k) ==
    IF k = 0 THEN [best_ucb |-> NegInf, best_child |-> 0]
    ELSE LET before == BestChild(t, current_node, k - 1)
             child == t[current_node].children[k].value
         IN IF is_terminal_node(t[child]) THEN before
            ELSE IF UcbGreater(Ucb(t[child], t[current_node]), before.best_ucb)
                 THEN [best_ucb |-> Ucb(t[child], t[current_node]), best_child |-> child]
                 ELSE before

\* A selection that descends one level only.
SelectFromOneLevel(t, current_node) ==
    IF is_fully_expanded(t[current_node]) /\ ~is_terminal_node(t[current_node])
    THEN LET best == BestChild(t, current_node, Len(t[current_node].children)).best_child
         IN IF best = 0 THEN current_node ELSE best
    ELSE current_node

RECURSIVE SelectFrom(_, _)
SelectFrom(t, current_node) ==
    IF is_fully_expanded(t[current_node]) /\ ~is_terminal_node(t[current_node])
    THEN LET best == BestChild(t, current_node, Len(t[current_node].children)).best_child
         IN IF best = 0 THEN current_node ELSE SelectFrom(t, best)
    ELSE current_node

_select(t) == SelectFrom(t, 1)

(***************************************************************************)
(* tree.py: MCTS._expand.  The results of expanding node: the tree after   *)
(* it and the node returned, one per random.choice of an unvisited action  *)
(* and per dice roll of execute_action.                                    *)
(***************************************************************************)
\* An expansion that leaves the action among the unvisited ones.
ExpandWithoutRemove(t, node, action, new_state) ==
    LET new_child == Len(t) + 1
        parent == [t[node] EXCEPT !.children = DictSet(@, action, new_child)]
    IN [tree |-> Append([t EXCEPT ![node] = parent], Node(new_state, node, action)),
        node |-> new_child]

ExpandWith(t, node, action, new_state) ==
    LET new_child == Len(t) + 1
        parent == [t[node] EXCEPT
                     !.unvisited_actions = RemoveFirst(@, action),
                     !.children = DictSet(@, action, new_child)]
    IN [tree |-> Append([t EXCEPT ![node] = parent], Node(new_state, node, action)),
        node |-> new_child]

\* An expansion without the test of is_terminal_node.
ExpandTerminalToo(t, node) ==
    IF is_fully_expanded(t[node])
    THEN {[tree |-> t, node |-> node]}
    ELSE {ExpandWith(t, node, action, new_state) :
            <<action, new_state>> \in
                UNION {{<<a, s>> : s \in execute_action(t[node].state, a)} :
                        a \in Range(t[node].unvisited_actions)}}

_expand(t, node) ==
    IF is_terminal_node(t[node]) \/ is_fully_expanded(t[node])
    THEN {[tree |-> t, node |-> node]}
    ELSE {ExpandWith(t, node, action, new_state) :
            <<action, new_state>> \in
                UNION {{<<a, s>> : s \in execute_action(t[node].state, a)} :
                        a \in Range(t[node].unvisited_actions)}}

(***************************************************************************)
(* tree.py: MCTS._backpropagate                                            *)
(***************************************************************************)
RECURSIVE Chain(_, _)
Chain(t, node) == IF node = 0 THEN {} ELSE {node} \cup Chain(t, t[node].parent)

BackpropagateRootSkipped(t, node, score) ==
    [n \in 1..Len(t) |->
        IF n \in Chain(t, node) /\ t[n].parent # 0
        THEN [t[n] EXCEPT !.N = @ + 1, !.Q = @ + score]
        ELSE t[n]]

\* A backpropagation that does not climb to the parents.
BackpropagateLeafOnly(t, node, score) ==
    [n \in 1..Len(t) |->
        IF n = node
        THEN [t[n] EXCEPT !.N = @ + 1, !.Q = @ + score]
        ELSE t[n]]

\* A backpropagation that counts the visit on the node alone.
BackpropagateVisitsLeafOnly(t, node, score) ==
    [n \in 1..Len(t) |->
        IF n \in Chain(t, node)
        THEN [t[n] EXCEPT !.N = IF n = node THEN @ + 1 ELSE @, !.Q = @ + score]
        ELSE t[n]]

_backpropagate(t, node, score) ==
    [n \in 1..Len(t) |->
        IF n \in Chain(t, node)
        THEN [t[n] EXCEPT !.N = @ + 1, !.Q = @ + score]
        ELSE t[n]]

(***************************************************************************)
(* Rollouts: MCTS._simulate and simulate_single run the same loop.         *)
(***************************************************************************)
\* The loop of a rollout stops at state s.
RolloutEnd(s) == s.stopped_round \/ get_available_actions(s) = <<>>

\* The states one turn of the loop can move to.
RolloutNext(s) ==
    IF RolloutEnd(s) THEN {}
    ELSE UNION {execute_action(s, a) : a \in Range(get_available_actions(s))}

RECURSIVE Reach(_, _)
Reach(frontier, seen) ==
    IF frontier = {} THEN seen
    ELSE Reach((UNION {RolloutNext(s) : s \in frontier}) \ (seen \cup frontier),
               seen \cup frontier)

\* The scores simulate_worker(node_state) can return: the score of any state
\* at which the loop of simulate_single stops.
simulate_worker(node_state) ==
    {s.score : s \in {u \in Reach({node_state}, {}) : RolloutEnd(u)}}

(***************************************************************************)
(* Averages and results                                                    *)
(***************************************************************************)
RECURSIVE GCD(_, _)
GCD(a, b) == IF b = 0 THEN a ELSE GCD(b, a % b)

\* Q / N as the fraction in lowest terms
Frac(q, n) == LET g == GCD(q, n) IN <<q \div g, n \div g>>

avg_score(child) == IF child.N > 0 THEN Frac(child.Q, child.N) ELSE <<0, 1>>

\* A result list that keeps the most visited root children only.
ResultsBestOnly(t, history) ==
    LET all == [k \in 1..Len(t[1].children) |->
                  LET entry == t[1].children[k]
                  IN [expected_score |-> avg_score(t[entry.value]),
                      action |-> entry.key,
                      visit_count |-> t[entry.value].N,
                      history |-> DictGet(history, entry.key, <<>>)]]
        IsBest(r) == \A k \in 1..Len(all) : r.visit_count >= all[k].visit_count
    IN SelectSeq(all, IsBest)

\* run: one ResultAction per entry of root.children, with its history.
Results(t, history) ==
    [k \in 1..Len(t[1].children) |->
        LET entry == t[1].children[k]
        IN [expected_score |-> avg_score(t[entry.value]),
            action |-> entry.key,
            visit_count |-> t[entry.value].N,
            history |-> DictGet(history, entry.key, <<>>)]]

\* run_parallel and run_sequential: ResultAction without history.
ResultsNoHistory(t) ==
    [k \in 1..Len(t[1].children) |->
        LET entry == t[1].children[k]
        IN [expected_score |-> avg_score(t[entry.value]),
            action |-> entry.key,
            visit_count |-> t[entry.value].N]]

\* "if not self.root.children: raise"
RaisesNever(t) == FALSE
\* A raise for a root that was never visited.
RaisesUnvisited(t) == t[1].N = 0
Raises(t) == Len(t[1].children) = 0

\* A monitoring that keeps the last point of an action only.
RECURSIVE MonitorOverwrite(_, _, _, _)
MonitorOverwrite(history, t, sim, k) ==
    IF k = 0 THEN history
    ELSE LET before == MonitorOverwrite(history, t, sim, k - 1)
             entry == t[1].children[k]
             child == t[entry.value]
         IN IF child.N > 0
            THEN DictSet(before, entry.key,
                         <<[simulations |-> sim,
                            expected_score |-> Frac(child.Q, child.N)]>>)
            ELSE before

\* The history after the monitoring of simulation sim: a point for each of
\* the first k root children with N > 0.
RECURSIVE Monitor(_, _, _, _)
Monitor(history, t, sim, k) ==
    IF k = 0 THEN history
    ELSE LET before == Monitor(history, t, sim, k - 1)
             entry == t[1].children[k]
             child == t[entry.value]
         IN IF child.N > 0
            THEN DictSet(before, entry.key,
                         Append(DictGet(before, entry.key, <<>>),
                                [simulations |-> sim,
                                 expected_score |-> Frac(child.Q, child.N)]))
            ELSE before

(***************************************************************************)
(* The initial game states of the searches.                                *)
(***************************************************************************)
DummyAction == Action(SAVE_DICE, 0)

InitialStates ==
    { GameState(<<1, 2, 3, 4, 5, 6, 1, 2>>, <<>>, 0),
      GameState(<<1, 1, 1, 1, 1, 1, 1>>, <<>>, 0),
      GameState(<<3, 3, 3, 3, 3, 3>>, <<3, 4>>, 0),
      GameState(<<3, 3, 3, 3, 3, 3, 3>>, <<3>>, 0),
      TerminalTestGameState(<<6, 6, 6, 6, 6, 6, 6, 6>>, 40, FALSE),
      DummyGameState(FALSE, 0, <<DummyAction>>),
      DummyGameState(TRUE, 42, <<>>),
      DummyGameState(TRUE, 42, <<DummyAction>>),
      DummyGameState(FALSE, 5, <<>>),
      TwoActionState(0, FALSE) }

\* An initial state with two legal actions that lead to non-terminal states.
SelectStates == { GameState(<<1, 2, 3, 4, 1, 2>>, <<5, 6>>, 0) }

(***************************************************************************)
(* The state of one ParallelMCTS engine (an MCTS with a worker pool) and   *)
(* of the call in progress on it.                                          *)
(***************************************************************************)
VARIABLES
    tree,             \* the Node objects; tree[1] is self.root
    pool,             \* self._simulation_pool is not None
    pc,               \* where the controller is
    mode,             \* the method called: run, run_parallel, run_sequential
    num_simulations,
    monitor_interval,
    batch_size,
    i,                \* run, run_sequential: the simulation; run_parallel: batch_start
    history_log,
    node_to_simulate, \* node_to_simulate_from
    rollout_state,    \* current_rollout_state
    nodes_to_update,
    simulation_states,
    pending,          \* the slots of the batch whose worker has not returned
    completed,        \* the worker results of the batch, in order of completion
    scores,           \* what pool.map returned
    j,                \* the pair of zip(nodes_to_update, scores) to backpropagate
    outcome,          \* how the last call ended: none, returned, raised, failed
    results,          \* what the last call returned
    reference,        \* the comparison harness: the first call of an earlier
                      \* engine on the same initial state
    backprop_starts,  \* audit: the bag of the nodes _backpropagate was called on
    live_pools,       \* audit: the pools created and not yet terminated
    root_N_at_call,   \* audit: self.root.N when the call in progress began
    draws             \* audit: the random draws of the call: the expansions
                      \* (the action chosen and the state it led to), and the
                      \* rollouts, each kept as the score its draws led to;
                      \* those of the workers in the order of their slots

vars == <<tree, pool, pc, mode, num_simulations, monitor_interval, batch_size, i,
          history_log, node_to_simulate, rollout_state, nodes_to_update,
          simulation_states, pending, completed, scores, j, outcome, results,
          reference, backprop_starts, live_pools, root_N_at_call, draws, c_param>>

auditVars == <<backprop_starts, live_pools, root_N_at_call>>
batchVars == <<nodes_to_update, simulation_states, pending, completed, scores, j>>
callVars == <<mode, num_simulations, monitor_interval, batch_size>>

NoState == GameState(<<>>, <<>>, 0)
NoReference ==
    [set |-> FALSE, mode |-> "none", num_simulations |-> 0, batch_size |-> 0,
     draws |-> <<>>, outcome |-> "none", results |-> <<>>]
\* action_taken = None
NoAction == Action("None", 0)

\* The GameStates the searches start from leave at most MaxDice dice to
\* roll: the rolls of more dice are too many to enumerate.
WithinDice(s) == s.kind = "GameState" => N_DICE - Len(s.hand) <= MaxDice

\* MCTS(initial_game_state, c_param), for an initial state among states and
\* a c_param among c_params
InitWith(states, c_params) ==
    /\ \E initial_game_state \in {s \in states : WithinDice(s)} :
          tree = <<Node(initial_game_state, 0, NoAction)>>
    /\ c_param \in c_params
    /\ pool = FALSE
    /\ pc = "idle"
    /\ mode = "none"
    /\ num_simulations = 0
    /\ monitor_interval = 0
    /\ batch_size = 0
    /\ i = 0
    /\ history_log = <<>>
    /\ node_to_simulate = 0
    /\ rollout_state = NoState
    /\ nodes_to_update = <<>>
    /\ simulation_states = <<>>
    /\ pending = {}
    /\ completed = <<>>
    /\ scores = <<>>
    /\ j = 0
    /\ outcome = "none"
    /\ results = <<>>
    /\ reference = NoReference
    /\ backprop_starts = EmptyBag
    /\ live_pools = 0
    /\ root_N_at_call = 0
    /\ draws = <<>>

\* MCTS(initial_game_state), with the default c_param
InitFrom(states) == InitWith(states, {DefaultCParam})

Init == InitFrom(InitialStates)


Min(a, b) == IF a < b THEN a ELSE b
Max(a, b) == IF a > b THEN a ELSE b

\* The largest num_simulations of the next call: an engine takes MaxSims
\* simulations and expansions in all.
Budget == MaxSims - Max(tree[1].N, Len(tree) - 1)

ResetLocals ==
    /\ history_log' = <<>>
    /\ node_to_simulate' = 0
    /\ rollout_state' = NoState
    /\ nodes_to_update' = <<>>
    /\ simulation_states' = <<>>
    /\ pending' = {}
    /\ completed' = <<>>
    /\ scores' = <<>>
    /\ j' = 0

(***************************************************************************)
(* tree.py: MCTS.run, and parallel_tree.py: ParallelMCTS.run_sequential,   *)
(* which is the same loop without the history.                             *)
(***************************************************************************)
\* run(num_simulations, monitor_interval) is called.
StartRun ==
    /\ pc = "idle"
    /\ UNCHANGED <<c_param, reference, backprop_starts, live_pools>>
    /\ root_N_at_call' = tree[1].N
    /\ draws' = <<>>
    /\ \E n \in 0..Budget, k \in 1..MaxInterval :
          /\ num_simulations' = n
          /\ monitor_interval' = k
    /\ mode' = "run"
    /\ batch_size' = 0
    /\ i' = 1
    /\ pc' = "loop"
    /\ outcome' = "none"
    /\ results' = <<>>
    /\ ResetLocals
    /\ UNCHANGED <<tree, pool>>

\* run_sequential(num_simulations) is called.
StartRunSequential ==
    /\ pc = "idle"
    /\ UNCHANGED <<c_param, reference, backprop_starts, live_pools>>
    /\ root_N_at_call' = tree[1].N
    /\ draws' = <<>>
    /\ \E n \in 0..Budget : num_simulations' = n
    /\ monitor_interval' = 0
    /\ mode' = "run_sequential"
    /\ batch_size' = 0
    /\ i' = 1
    /\ pc' = "loop"
    /\ outcome' = "none"
    /\ results' = <<>>
    /\ ResetLocals
    /\ UNCHANGED <<tree, pool>>

\* Selection, then expansion unless the leaf is terminal: the trees and nodes
\* the two steps can end with.
SelectExpand(t) ==
    LET leaf_node == _select(t)
    IN IF ~is_terminal_node(t[leaf_node]) THEN _expand(t, leaf_node)
       ELSE {[tree |-> t, node |-> leaf_node]}

\* The draws of _expand on the controller's generator: random.choice of the
\* action and the dice execute_action rolled, none when nothing is expanded.
ExpandDraws(t, e) ==
    IF Len(e.tree) > Len(t)
    THEN <<[action |-> e.tree[e.node].action_taken,
            state |-> e.tree[e.node].state,
            score |-> 0]>>
    ELSE <<>>

\* The draws of a rollout (random.choice of the actions, the dice of
\* execute_action), kept as the score they led to.
RolloutDraw(score) == [action |-> NoAction, state |-> NoState, score |-> score]

\* The draws of the rollouts of a batch, made in the workers on the states
\* of the slots: one entry per slot, in the order of the slots.
WorkerDraws(done) ==
    [k \in 1..Len(done) |->
        RolloutDraw(done[CHOOSE c \in 1..Len(done) : done[c].slot = k].score)]

\* Steps 1 and 2 of a simulation of run and run_sequential.
SelectAndExpand ==
    /\ pc = "loop"
    /\ UNCHANGED <<c_param, reference, auditVars>>
    /\ i <= num_simulations
    /\ \E e \in SelectExpand(tree) :
          /\ tree' = e.tree
          /\ draws' = draws \o ExpandDraws(tree, e)
          /\ node_to_simulate' = e.node
          /\ rollout_state' = e.tree[e.node].state
    /\ pc' = "simulate"
    /\ UNCHANGED <<pool, callVars, i, history_log, batchVars, outcome, results>>

\* One turn of the loop of _simulate or simulate_single: a random action is
\* executed on the rollout state.  The first receiver is the node's own state.
SimulateStep ==
    /\ pc = "simulate"
    /\ UNCHANGED <<c_param, reference, auditVars, draws>>
    /\ ~RolloutEnd(rollout_state)
    /\ \E random_action \in Range(get_available_actions(rollout_state)) :
          \E new_state \in execute_action(rollout_state, random_action) :
             /\ rollout_state' = new_state
             /\ tree' = IF rollout_state = tree[node_to_simulate].state
                        THEN [tree EXCEPT ![node_to_simulate].state =
                                 ReceiverAfter(rollout_state, random_action, new_state)]
                        ELSE tree
    /\ UNCHANGED <<pool, pc, callVars, i, history_log, node_to_simulate, batchVars,
                   outcome, results>>

\* The rollout is over: step 4, and in run the monitoring of every
\* monitor_interval-th simulation.
Backpropagate ==
    /\ pc = "simulate"
    /\ UNCHANGED <<c_param, reference, live_pools, root_N_at_call>>
    /\ RolloutEnd(rollout_state)
    /\ draws' = Append(draws, RolloutDraw(rollout_state.score))
    /\ backprop_starts' = backprop_starts (+) SetToBag({node_to_simulate})
    /\ LET after == _backpropagate(tree, node_to_simulate, rollout_state.score)
       IN /\ tree' = after
          /\ history_log' =
                IF mode = "run" /\ i % monitor_interval = 0
                THEN Monitor(history_log, after, i, Len(after[1].children))
                ELSE history_log
    /\ i' = i + 1
    /\ pc' = "loop"
    /\ UNCHANGED <<pool, callVars, node_to_simulate, rollout_state, batchVars,
                   outcome, results>>

\* The budget is spent: run and run_sequential raise or return the results.
Finish ==
    /\ pc = "loop"
    /\ UNCHANGED <<c_param, reference, auditVars, draws>>
    /\ i > num_simulations
    /\ IF Raises(tree)
       THEN outcome' = "raised" /\ results' = <<>>
       ELSE /\ outcome' = "returned"
            /\ results' = IF mode = "run" THEN Results(tree, history_log)
                          ELSE ResultsNoHistory(tree)
    /\ pc' = "idle"
    /\ ResetLocals
    /\ UNCHANGED <<tree, pool, callVars, i>>

(***************************************************************************)
(* parallel_tree.py: ParallelMCTS.run_parallel and close                   *)
(***************************************************************************)
\* if self._simulation_pool is None: a pool is to be created.
NeedsPoolAlways(held) == TRUE
NeedsPool(held) == ~held

\* run_parallel(num_simulations, batch_size) is called: the pool is created
\* when the engine holds none.
StartRunParallel ==
    /\ pc = "idle"
    /\ UNCHANGED <<c_param, reference, backprop_starts>>
    /\ root_N_at_call' = tree[1].N
    /\ draws' = <<>>
    /\ \E n \in 0..Budget, b \in 1..MaxBatch :
          /\ num_simulations' = n
          /\ batch_size' = b
    /\ monitor_interval' = 0
    /\ mode' = "run_parallel"
    /\ pool' = TRUE
    /\ live_pools' = IF NeedsPool(pool) THEN live_pools + 1 ELSE live_pools
    /\ i' = 0
    /\ pc' = "batch"
    /\ outcome' = "none"
    /\ results' = <<>>
    /\ ResetLocals
    /\ UNCHANGED tree

\* A batch that is always whole.
batch_size_whole == batch_size
\* min(batch_start + batch_size, num_simulations) - batch_start
batch_size_actual == Min(i + batch_size, num_simulations) - i

\* The next batch_start of range(0, num_simulations, batch_size).
BatchStart ==
    /\ pc = "batch"
    /\ UNCHANGED <<c_param, reference, auditVars, draws>>
    /\ i < num_simulations
    /\ nodes_to_update' = <<>>
    /\ simulation_states' = <<>>
    /\ pc' = "prepare"
    /\ UNCHANGED <<tree, pool, callVars, i, history_log, node_to_simulate,
                   rollout_state, pending, completed, scores, j, outcome, results>>

\* One slot of the batch: selection and expansion on the shared tree.
PrepareSlot ==
    /\ pc = "prepare"
    /\ UNCHANGED <<c_param, reference, auditVars>>
    /\ Len(nodes_to_update) < batch_size_actual
    /\ \E e \in SelectExpand(tree) :
          /\ tree' = e.tree
          /\ draws' = draws \o ExpandDraws(tree, e)
          /\ simulation_states' = Append(simulation_states, e.tree[e.node].state)
          /\ nodes_to_update' = Append(nodes_to_update, e.node)
    /\ UNCHANGED <<pool, pc, callVars, i, history_log, node_to_simulate,
                   rollout_state, pending, completed, scores, j, outcome, results>>

\* pool.map(simulate_worker, simulation_states) is called.
Dispatch ==
    /\ pc = "prepare"
    /\ UNCHANGED <<c_param, reference, auditVars, draws>>
    /\ Len(nodes_to_update) = batch_size_actual
    /\ pending' = 1..Len(simulation_states)
    /\ completed' = <<>>
    /\ pc' = "map"
    /\ UNCHANGED <<tree, pool, callVars, i, history_log, node_to_simulate,
                   rollout_state, nodes_to_update, simulation_states, scores, j,
                   outcome, results>>

\* A worker returns the score of the state of one slot, in any order.
WorkerReturn ==
    /\ pc = "map"
    /\ UNCHANGED <<c_param, reference, auditVars, draws>>
    /\ \E slot \in pending :
          \E score \in simulate_worker(simulation_states[slot]) :
             /\ completed' = Append(completed, [slot |-> slot,
                                              state |-> simulation_states[slot],
                                              score |-> score,
                                              failed |-> FALSE])
             /\ pending' = pending \ {slot}
    /\ UNCHANGED <<tree, pool, pc, callVars, i, history_log, node_to_simulate,
                   rollout_state, nodes_to_update, simulation_states, scores, j,
                   outcome, results>>

\* The rollout of one slot raises in its worker: the pool keeps the exception
\* in place of a score.
WorkerFails ==
    /\ pc = "map"
    /\ UNCHANGED <<c_param, reference, auditVars, draws>>
    /\ \E slot \in pending :
          /\ completed' = Append(completed, [slot |-> slot,
                                           state |-> simulation_states[slot],
                                           score |-> 0,
                                           failed |-> TRUE])
          /\ pending' = pending \ {slot}
    /\ UNCHANGED <<tree, pool, pc, callVars, i, history_log, node_to_simulate,
                   rollout_state, nodes_to_update, simulation_states, scores, j,
                   outcome, results>>

\* pool.map raises the exception of a worker in the caller, and
\* run_parallel does not catch it.
MapRaisesNever(done) == FALSE
MapRaises(done) == \E c \in 1..Len(done) : done[c].failed

\* The list pool.map returns: the results in the order of the inputs.
MapResultByCompletion(done) == [k \in 1..Len(done) |-> done[k].score]
MapResult(done) ==
    [k \in 1..Len(done) |-> done[CHOOSE c \in 1..Len(done) : done[c].slot = k].score]

\* pool.map ends once every worker has ended: it returns the scores, or it
\* raises when a worker raised.
MapReturn ==
    /\ pc = "map"
    /\ UNCHANGED <<c_param, reference, auditVars>>
    /\ pending = {}
    /\ draws' = draws \o WorkerDraws(completed)
    /\ IF MapRaises(completed)
       THEN /\ outcome' = "failed"
            /\ results' = <<>>
            /\ pc' = "idle"
            /\ ResetLocals
       ELSE /\ scores' = MapResult(completed)
            /\ j' = 1
            /\ pc' = "backprop"
            /\ UNCHANGED <<history_log, node_to_simulate, rollout_state,
                           nodes_to_update, simulation_states, pending, completed,
                           outcome, results>>
    /\ UNCHANGED <<tree, pool, callVars, i>>

\* zip(nodes_to_update, scores) is exhausted before its pair k.
ZipDoneAfterOne(nodes, scs, k) == k > 1
ZipDone(nodes, scs, k) == k > Min(Len(nodes), Len(scs))

\* Step 4 for one pair of the batch.
BackpropagatePair ==
    /\ pc = "backprop"
    /\ UNCHANGED <<c_param, reference, live_pools, root_N_at_call, draws>>
    /\ ~ZipDone(nodes_to_update, scores, j)
    /\ backprop_starts' = backprop_starts (+) SetToBag({nodes_to_update[j]})
    /\ tree' = _backpropagate(tree, nodes_to_update[j], scores[j])
    /\ j' = j + 1
    /\ UNCHANGED <<pool, pc, callVars, i, history_log, node_to_simulate,
                   rollout_state, nodes_to_update, simulation_states, pending,
                   completed, scores, outcome, results>>

\* The batch is backpropagated: on to the next batch_start.
BatchEnd ==
    /\ pc = "backprop"
    /\ UNCHANGED <<c_param, reference, auditVars, draws>>
    /\ ZipDone(nodes_to_update, scores, j)
    /\ i' = i + batch_size
    /\ pc' = "batch"
    /\ UNCHANGED <<tree, pool, callVars, history_log, node_to_simulate,
                   rollout_state, batchVars, outcome, results>>

\* The budget is spent: run_parallel raises or returns the results.
FinishParallel ==
    /\ pc = "batch"
    /\ UNCHANGED <<c_param, reference, auditVars, draws>>
    /\ i >= num_simulations
    /\ IF Raises(tree)
       THEN outcome' = "raised" /\ results' = <<>>
       ELSE outcome' = "returned" /\ results' = ResultsNoHistory(tree)
    /\ pc' = "idle"
    /\ ResetLocals
    /\ UNCHANGED <<tree, pool, callVars, i>>

\* if self._simulation_pool is not None: the pool is to be terminated.
HoldsPool(held) == held

\* close(): the pool is closed, joined and forgotten; nothing when none is held.
Close ==
    /\ pc = "idle"
    /\ UNCHANGED <<c_param, reference, backprop_starts, root_N_at_call, draws>>
    /\ pool' = IF HoldsPool(pool) THEN FALSE ELSE pool
    /\ live_pools' = IF HoldsPool(pool) THEN live_pools - 1 ELSE live_pools
    /\ UNCHANGED <<tree, pc, callVars, i, history_log, node_to_simulate,
                   rollout_state, batchVars, outcome, results>>

Next ==
    \/ StartRun
    \/ StartRunSequential
    \/ SelectAndExpand
    \/ SimulateStep
    \/ Backpropagate
    \/ Finish
    \/ StartRunParallel
    \/ BatchStart
    \/ PrepareSlot
    \/ Dispatch
    \/ WorkerReturn
    \/ MapReturn
    \/ BackpropagatePair
    \/ BatchEnd
    \/ FinishParallel
    \/ Close

Spec == Init /\ [][Next]_vars

\* The engine main.py builds, on a root whose children compete in the
\* selection.
InitSelect == InitWith(SelectStates, {MainCParam})

SpecSelect == InitSelect /\ [][Next]_vars

\* The engine with rollouts that can raise in the workers.
NextFault == Next \/ WorkerFails

SpecFault == Init /\ [][NextFault]_vars

(***************************************************************************)
(* The comparison of the engines, made the way tests/performance makes    *)
(* it: a first engine makes one call, its outcome is kept, and a new       *)
(* engine is built on the same initial state; a pool the first engine was  *)
(* not closed with stays alive.  The initial states are                    *)
(* those of Init whose every rollout returns one fixed score; the empty    *)
(* hand tests/performance starts from, with its rolls of 8 dice, is beyond *)
(* MaxDice and not among them.                                             *)
(***************************************************************************)
ConstantRollout(s) == Cardinality(simulate_worker(s)) = 1

\* The steps of a call in progress.
CallStep ==
    \/ SelectAndExpand
    \/ SimulateStep
    \/ Backpropagate
    \/ Finish
    \/ BatchStart
    \/ PrepareSlot
    \/ Dispatch
    \/ WorkerReturn
    \/ MapReturn
    \/ BackpropagatePair
    \/ BatchEnd
    \/ FinishParallel

NewEngine ==
    /\ pc = "idle"
    /\ outcome # "none"
    /\ ~reference.set
    /\ mode \in {"run", "run_parallel"}
    /\ UNCHANGED c_param
    /\ reference' = [set |-> TRUE, mode |-> mode, num_simulations |-> num_simulations,
                     batch_size |-> batch_size, draws |-> draws,
                     outcome |-> outcome, results |-> results]
    /\ tree' = <<Node(tree[1].state, 0, NoAction)>>
    /\ pool' = FALSE
    /\ mode' = "none"
    /\ num_simulations' = 0
    /\ monitor_interval' = 0
    /\ batch_size' = 0
    /\ i' = 0
    /\ outcome' = "none"
    /\ results' = <<>>
    /\ backprop_starts' = EmptyBag
    /\ live_pools' = live_pools
    /\ root_N_at_call' = 0
    /\ draws' = <<>>
    /\ UNCHANGED <<pc, history_log, node_to_simulate, rollout_state, batchVars>>

InitCompare == Init /\ ConstantRollout(tree[1].state)

\* Each engine makes one call, of run or of run_parallel, and may be closed.
NextCompare ==
    \/ mode = "none" /\ StartRun
    \/ mode = "none" /\ StartRunParallel
    \/ CallStep
    \/ Close
    \/ NewEngine

SpecCompare == InitCompare /\ [][NextCompare]_vars

\* The same steps for a call that is made again on a new engine, as a run
\* is repeated to compare its results, on initial states within MaxDice
\* whose rollouts roll dice or whose expansions choose among actions.
ReplayStates ==
    { GameState(<<1, 1, 1, 1, 1, 1, 1>>, <<>>, 0),
      GameState(<<3, 3, 3, 3, 3, 3, 3>>, <<3>>, 0),
      TwoActionState(0, FALSE) }

InitReplay == Init /\ tree[1].state \in ReplayStates

\* The first call of an engine has ended: its outcome is kept, and the same
\* call is made on a new engine built on the same initial state, which
\* creates a pool of its own for run_parallel.
Replay ==
    /\ pc = "idle"
    /\ outcome # "none"
    /\ ~reference.set
    /\ UNCHANGED c_param
    /\ reference' = [set |-> TRUE, mode |-> mode, num_simulations |-> num_simulations,
                     batch_size |-> batch_size, draws |-> draws,
                     outcome |-> outcome, results |-> results]
    /\ tree' = <<Node(tree[1].state, 0, NoAction)>>
    /\ pool' = (mode = "run_parallel")
    /\ live_pools' = IF mode = "run_parallel" /\ NeedsPool(FALSE)
                      THEN live_pools + 1 ELSE live_pools
    /\ i' = IF mode = "run_parallel" THEN 0 ELSE 1
    /\ pc' = IF mode = "run_parallel" THEN "batch" ELSE "loop"
    /\ outcome' = "none"
    /\ results' = <<>>
    /\ backprop_starts' = EmptyBag
    /\ root_N_at_call' = 0
    /\ draws' = <<>>
    /\ ResetLocals
    /\ UNCHANGED callVars

\* Each engine makes one call and may be closed, as test_parallel_performance
\* closes the engine whose call returned.
NextReplay ==
    \/ mode = "none" /\ StartRun
    \/ mode = "none" /\ StartRunSequential
    \/ mode = "none" /\ StartRunParallel
    \/ CallStep
    \/ Close
    \/ Replay

SpecReplay == InitReplay /\ [][NextReplay]_vars

(***************************************************************************)
(* The claims.                                                             *)
(***************************************************************************)
Nodes == 1..Len(tree)

\* The call that just ended was the first call on its engine.
FirstCallEnded ==
    /\ pc = "idle"
    /\ outcome # "none"
    /\ tree[1].N = num_simulations

ResultOf(action) == results[CHOOSE k \in 1..Len(results) : results[k].action = action]

\* C1: the node registered under a ROLL action is a Chance Node: it holds no
\* sampled dice throw of its own and owns one child per outcome of
\* get_possible_rolls of the parent state, the children's states being those
\* outcomes, pairwise distinct.
C1_RollIsChanceNode ==
    \A c \in Nodes :
        (tree[c].parent # 0 /\ tree[c].action_taken.name = ROLL
            /\ tree[tree[c].parent].state.kind = "GameState") =>
        LET parent_state == tree[tree[c].parent].state
            outcomes == get_possible_rolls(parent_state)
            kids == tree[c].children
        IN /\ tree[c].state.dice_throw = <<>>
           /\ Len(kids) = Len(outcomes)
           /\ \A k \in 1..Len(kids) :
                 tree[kids[k].value].state \in
                    apply_roll_outcome(parent_state, outcomes[k].roll)
           /\ \A k, h \in 1..Len(kids) :
                 k # h => tree[kids[k].value].state # tree[kids[h].value].state

\* The only legal action of state s is STOP, and it leads to a terminal state.
OnlyStopToTerminal(s) ==
    /\ get_available_actions(s) = <<Action(STOP, 0)>>
    /\ \A after \in execute_action(s, Action(STOP, 0)) : after.stopped_round

\* C2: on a root whose only legal action, STOP, leads to a terminal state,
\* after run with k simulations the root has one child, the child is terminal
\* and its N is at least k - 1.
C2_TerminalChildVisits ==
    (FirstCallEnded /\ mode = "run" /\ num_simulations >= 1
        /\ OnlyStopToTerminal(tree[1].state)) =>
    /\ Len(tree[1].children) = 1
    /\ is_terminal_node(tree[tree[1].children[1].value])
    /\ tree[tree[1].children[1].value].N >= num_simulations - 1

\* C3: on the two-action root (A leads directly to a terminal state of score
\* 1, B to a terminal state of score 2), run with a budget of at least 2
\* returns results for A and for B, of average exactly 1 and 2, whose visit
\* counts add up to the budget.
C3_TwoActionScenario ==
    (FirstCallEnded /\ mode = "run" /\ num_simulations >= 2
        /\ tree[1].state = TwoActionState(0, FALSE)) =>
    /\ outcome = "returned"
    /\ {results[k].action : k \in 1..Len(results)} = {ActA, ActB}
    /\ ResultOf(ActA).expected_score = <<1, 1>>
    /\ ResultOf(ActB).expected_score = <<2, 1>>
    /\ ResultOf(ActA).visit_count + ResultOf(ActB).visit_count = num_simulations

C3_Witness ==
    /\ FirstCallEnded
    /\ mode = "run"
    /\ num_simulations = MaxSims
    /\ tree[1].state = TwoActionState(0, FALSE)
    /\ outcome = "returned"
    /\ ResultOf(ActA).visit_count = 1
    /\ ResultOf(ActB).visit_count = MaxSims - 1
    /\ ResultOf(ActB).expected_score = <<2, 1>>

\* The game states the engine holds: those of the nodes and of the rollout.
StatesHeld == {tree[n].state : n \in Nodes} \cup {rollout_state}

\* C4: a non-terminal GameState whose hand holds all N_DICE dice offers STOP
\* and does not offer ROLL.
C4_FullHandNoRoll ==
    \A s \in StatesHeld :
        (s.kind = "GameState" /\ ~s.stopped_round /\ Len(s.hand) >= N_DICE) =>
        /\ Action(ROLL, 0) \notin Range(get_available_actions(s))
        /\ Action(STOP, 0) \in Range(get_available_actions(s))

\* C5: on a root with no legal action every call of run, run_parallel and
\* run_sequential ends by raising, whatever the budget; no call returns an
\* empty result list.
C5_NoLegalActionRaises ==
    /\ (pc = "idle" /\ outcome # "none" /\ get_available_actions(tree[1].state) = <<>>)
          => outcome = "raised"
    /\ outcome = "returned" => results # <<>>

C5_Witness ==
    /\ pc = "idle"
    /\ outcome = "raised"
    /\ mode = "run_parallel"
    /\ num_simulations = 2
    /\ get_available_actions(tree[1].state) = <<>>
    /\ ~tree[1].state.stopped_round

\* A step of _backpropagate in run_parallel: pair j of the batch.
PairStep == pc = "backprop" /\ j' = j + 1

\* C6: in a batch of run_parallel the pair j is backpropagated with the one
\* score a worker computed from the j-th dispatched state, which is the state
\* of the j-th collected node, whatever the order in which the workers
\* returned; and the batch ends when each pair has been backpropagated once.
C6_PositionalPairing ==
    [][/\ PairStep =>
            /\ j \in 1..Len(nodes_to_update)
            /\ simulation_states[j] = tree[nodes_to_update[j]].state
            /\ Cardinality({c \in 1..Len(completed) : completed[c].slot = j}) = 1
            /\ \E c \in 1..Len(completed) :
                  /\ completed[c].slot = j
                  /\ completed[c].state = simulation_states[j]
                  /\ tree' = _backpropagate(tree, nodes_to_update[j], completed[c].score)
       /\ (pc = "backprop" /\ pc' # "backprop") => j = Len(nodes_to_update) + 1
      ]_vars

C6_Witness ==
    /\ pc = "backprop"
    /\ j = 3
    /\ Len(completed) = 2
    /\ completed[1].slot = 2
    /\ completed[1].score # completed[2].score

\* C7: run_parallel has a barrier at every batch boundary.  N and Q change
\* only in the backpropagation phase, which starts when every slot of the
\* batch has its score; the phase is left only when every pair of the batch
\* is backpropagated, for the next batch_start; selection and expansion
\* happen only in the preparation phase, which a batch after the first
\* enters only after the whole backpropagation of the batch before.
C7_BatchBarrier ==
    [][mode = "run_parallel" =>
        /\ (\E n \in Nodes : tree'[n].N # tree[n].N \/ tree'[n].Q # tree[n].Q) =>
              /\ pc = "backprop"
              /\ pending = {}
              /\ Len(scores) = Len(nodes_to_update)
              /\ \A slot \in 1..Len(nodes_to_update) :
                    \E c \in 1..Len(completed) : completed[c].slot = slot
        /\ (pc = "backprop" /\ pc' # "backprop") =>
              /\ j = Len(nodes_to_update) + 1
              /\ pc' = "batch"
              /\ i' = i + batch_size
        /\ (Len(tree') > Len(tree) \/ Len(nodes_to_update') > Len(nodes_to_update)) =>
              pc = "prepare"
        /\ (pc # "prepare" /\ pc' = "prepare") =>
              /\ pc = "batch"
              /\ i = 0 \/ j = Len(nodes_to_update) + 1
      ]_vars

C7_Witness ==
    /\ mode = "run_parallel"
    /\ pc = "prepare"
    /\ i > 0
    /\ Len(nodes_to_update) = 1
    /\ Len(tree) >= 4

\* A rollout is in flight: the loop of _simulate or simulate_single has not
\* stopped, or a worker of the batch has not returned.
RolloutInFlight ==
    \/ pc = "simulate" /\ ~RolloutEnd(rollout_state)
    \/ pc = "map" /\ pending # {}

\* What the rollouts in flight were handed: _simulate(node) of run and
\* simulate_single(node) of run_sequential get the Node of the tree, named
\* here by its index; simulate_worker(node_state) gets the state of its slot
\* and no node (0).
RolloutArguments ==
    IF pc = "simulate"
    THEN {[function |-> IF mode = "run" THEN "_simulate" ELSE "simulate_single",
           node |-> node_to_simulate,
           state |-> tree[node_to_simulate].state]}
    ELSE IF pc = "map"
    THEN {[function |-> "simulate_worker", node |-> 0,
           state |-> simulation_states[slot]] : slot \in pending}
    ELSE {}

\* C8, as stated: a rollout never mutates the tree: _simulate,
\* simulate_single and simulate_worker receive only a state value, no node,
\* and no step taken while a rollout is in flight changes a node (its N, Q,
\* children, untried actions or state) or adds one.
C8_RolloutReceivesStateOnly ==
    /\ [](\A a \in RolloutArguments : a.node = 0)
    /\ [][RolloutInFlight => tree' = tree]_vars

\* C8, amended: a rollout never mutates the tree: simulate_worker receives
\* only a state value, the state of its slot, while _simulate and
\* simulate_single in run_sequential receive the tree node and start from
\* its state; no step taken while a rollout is in flight, in the controller
\* or in a worker, changes a node (its N, Q, children, untried actions or
\* state) or adds one.
C8_RolloutFrame ==
    /\ [](\A a \in RolloutArguments :
             IF a.function = "simulate_worker"
             THEN a.node = 0 /\ a.state \in Range(simulation_states)
             ELSE a.node \in Nodes /\ a.state = tree[a.node].state)
    /\ [][RolloutInFlight => tree' = tree]_vars

C8_Witness ==
    /\ pc = "simulate"
    /\ ~RolloutEnd(rollout_state)
    /\ rollout_state.hand # tree[node_to_simulate].state.hand
    /\ tree[node_to_simulate].parent # 0

\* The actions of a result list, each with its average value.
ActionAverages(r) == {<<r[k].action, r[k].expected_score>> : k \in 1..Len(r)}

\* C9: on a collaborator whose every rollout returns one fixed score, the
\* first call of run and the first call of run_parallel (any batch size) on
\* the same initial state, with the same budget of at least the number of
\* legal root actions, end alike and return the same root actions, each
\* with the same average value.
C9_SequentialParallelAgree ==
    (/\ reference.set
     /\ pc = "idle"
     /\ outcome # "none"
     /\ ConstantRollout(tree[1].state)
     /\ {mode, reference.mode} = {"run", "run_parallel"}
     /\ num_simulations = reference.num_simulations
     /\ num_simulations >= Len(get_available_actions(tree[1].state))) =>
    /\ outcome = reference.outcome
    /\ ActionAverages(results) = ActionAverages(reference.results)

C9_Witness ==
    /\ reference.set
    /\ reference.mode = "run"
    /\ mode = "run_parallel"
    /\ FirstCallEnded
    /\ num_simulations = 4
    /\ reference.num_simulations = 4
    /\ batch_size = 2
    /\ Len(results) = 2
    /\ results[1].visit_count = 3
    /\ results[1].expected_score = <<23, 1>>

\* A call of _backpropagate, with its arguments.
BackpropStep == (pc = "simulate" /\ pc' = "loop") \/ PairStep
BackpropNode == IF pc = "simulate" THEN node_to_simulate ELSE nodes_to_update[j]
BackpropScore == IF pc = "simulate" THEN rollout_state.score ELSE scores[j]

\* C10: _backpropagate(node, score) adds 1 to N and score to Q on every node
\* of the parent chain of node, the root included, and on no other node; no
\* other step changes the N or Q of a node, and a new node has N = Q = 0.
C10_BackpropagateFrame ==
    [][/\ BackpropStep =>
            /\ 1 \in Chain(tree, BackpropNode)
            /\ Len(tree') = Len(tree)
            /\ \A n \in Nodes :
                  IF n \in Chain(tree, BackpropNode)
                  THEN /\ tree'[n].N = tree[n].N + 1
                       /\ tree'[n].Q = tree[n].Q + BackpropScore
                  ELSE /\ tree'[n].N = tree[n].N
                       /\ tree'[n].Q = tree[n].Q
       /\ ~BackpropStep =>
            /\ \A n \in Nodes : tree'[n].N = tree[n].N /\ tree'[n].Q = tree[n].Q
            /\ \A n \in (Len(tree) + 1)..Len(tree') : tree'[n].N = 0 /\ tree'[n].Q = 0
      ]_vars

C10_Witness ==
    \E n \in Nodes :
        /\ tree[n].parent # 0
        /\ tree[tree[n].parent].parent # 0
        /\ tree[n].N = 1
        /\ tree[n].Q > 0
        /\ tree[tree[n].parent].N = 2
        /\ tree[1].N = 3
        /\ \E m \in Nodes : tree[m].parent = 1 /\ tree[m].N = 1

\* The sum of N over the first k children of node n.
RECURSIVE ChildrenN(_, _, _)
ChildrenN(t, n, k) ==
    IF k = 0 THEN 0
    ELSE t[t[n].children[k].value].N + ChildrenN(t, n, k - 1)

\* No simulation and no batch is in progress.
SimulationsCompleted == pc \in {"idle", "loop", "batch"}

\* C11: after every completed simulation and every completed batch, the N of
\* each node is the number of simulations whose backpropagation started at
\* the node plus the sum of the N of its children; the N of the root is the
\* number of simulations run on the engine, and the N of the root's children
\* add up to that number less the simulations whose leaf was the root.
C11_VisitAccounting ==
    SimulationsCompleted =>
    /\ \A n \in Nodes :
          tree[n].N = CopiesIn(n, backprop_starts)
                         + ChildrenN(tree, n, Len(tree[n].children))
    /\ tree[1].N = BagCardinality(backprop_starts)
    /\ ChildrenN(tree, 1, Len(tree[1].children))
          = BagCardinality(backprop_starts) - CopiesIn(1, backprop_starts)

C11_Witness ==
    /\ pc = "batch"
    /\ i > 0
    /\ CopiesIn(1, backprop_starts) = 0
    /\ \E n \in Nodes :
          /\ tree[n].parent # 0
          /\ tree[n].N = 3
          /\ CopiesIn(n, backprop_starts) = 1
          /\ Len(tree[n].children) = 2

\* C12: in every state, inside a batch too, a node with N = 0 has Q = 0; and
\* no step decreases the N of a node.
C12_UnvisitedHasNoValue ==
    /\ [](\A n \in Nodes : tree[n].N = 0 => tree[n].Q = 0)
    /\ [][\A n \in Nodes : tree'[n].N >= tree[n].N]_vars

C12_Witness ==
    /\ pc = "map"
    /\ tree[1].N > 0
    /\ tree[1].Q > 0
    /\ \E n, m \in Nodes :
          /\ n # m
          /\ tree[n].N = 0
          /\ tree[m].N = 0
          /\ tree[n].parent # 0
          /\ tree[tree[n].parent].N > 0

\* C13: _expand on a node that is terminal or fully expanded returns that
\* node and changes nothing: no child is created, no untried action is
\* removed.  In a simulation whose selected leaf is fully expanded the tree
\* is the same after the expansion step and the leaf is simulated from.
C13_ExpandNothingToDo ==
    /\ [](\A n \in Nodes :
            (is_terminal_node(tree[n]) \/ is_fully_expanded(tree[n])) =>
            _expand(tree, n) = {[tree |-> tree, node |-> n]})
    /\ [][(pc = "loop" /\ pc' = "simulate"
             /\ is_fully_expanded(tree[_select(tree)])) =>
          /\ tree' = tree
          /\ node_to_simulate' = _select(tree)]_vars

\* A simulation whose leaf was the fully expanded, non-terminal root.
C13_Witness ==
    /\ pc = "simulate"
    /\ node_to_simulate = 1
    /\ ~is_terminal_node(tree[1])
    /\ is_fully_expanded(tree[1])
    /\ Len(tree[1].children) >= 1
    /\ tree[1].N >= 2

\* The actions registered as children of a node.
ChildKeys(node) == {node.children[k].key : k \in 1..Len(node.children)}

\* The node the expansion step of the simulation or slot returned.
ExpandReturned ==
    IF pc = "loop" THEN node_to_simulate' ELSE nodes_to_update'[Len(nodes_to_update')]

\* C14: an expansion removes one action a from the untried actions of a
\* non-terminal node n, registers one new child under a, whose state is a
\* result of applying a to the state of n and whose parent is n, and returns
\* the child; every other node is left as it was.  In every state the untried
\* actions and the child keys of a node are disjoint and together are the
\* legal actions of the node's state.
C14_ExpandOneAction ==
    /\ [](\A n \in Nodes :
            /\ Range(tree[n].unvisited_actions) \cap ChildKeys(tree[n]) = {}
            /\ Range(tree[n].unvisited_actions) \cup ChildKeys(tree[n])
                  = Range(get_available_actions(tree[n].state))
            /\ Cardinality(ChildKeys(tree[n])) = Len(tree[n].children))
    /\ [][Len(tree') # Len(tree) =>
          /\ Len(tree') = Len(tree) + 1
          /\ pc \in {"loop", "prepare"}
          /\ ExpandReturned = Len(tree')
          /\ \E n \in Nodes : \E a \in Range(tree[n].unvisited_actions) :
                /\ ~is_terminal_node(tree[n])
                /\ Len(tree'[n].unvisited_actions) = Len(tree[n].unvisited_actions) - 1
                /\ Range(tree'[n].unvisited_actions)
                      = Range(tree[n].unvisited_actions) \ {a}
                /\ tree'[n].children
                      = Append(tree[n].children, [key |-> a, value |-> Len(tree')])
                /\ tree'[Len(tree')].parent = n
                /\ tree'[Len(tree')].action_taken = a
                /\ tree'[Len(tree')].state \in execute_action(tree[n].state, a)
                /\ tree'[Len(tree')].children = <<>>
                /\ \A m \in Nodes \ {n} : tree'[m] = tree[m]]_vars

C14_Witness ==
    \E n \in Nodes :
        /\ tree[n].parent # 0
        /\ Len(tree[n].children) = 1
        /\ Len(tree[n].unvisited_actions) >= 1
        /\ tree[tree[n].children[1].value].state # tree[n].state

\* C15: the tree only grows.  No step removes a node, changes the parent, the
\* action or the state of a node, or removes or replaces an entry of the
\* children of a node, within a call and from one call on the engine to the
\* next; so root.children[ROLL] stays the same node with the same dice_throw.
C15_TreeOnlyGrows ==
    [][/\ Len(tree') >= Len(tree)
       /\ \A n \in Nodes :
             /\ tree'[n].parent = tree[n].parent
             /\ tree'[n].action_taken = tree[n].action_taken
             /\ tree'[n].state = tree[n].state
             /\ Len(tree'[n].children) >= Len(tree[n].children)
             /\ \A k \in 1..Len(tree[n].children) :
                   tree'[n].children[k] = tree[n].children[k]
      ]_vars

\* A later call on an engine whose root has a ROLL child with its dice throw.
C15_Witness ==
    /\ pc = "idle"
    /\ outcome = "returned"
    /\ root_N_at_call >= 2
    /\ tree[1].N > root_N_at_call
    /\ DictHas(tree[1].children, Action(ROLL, 0))
    /\ LET roll == tree[DictGet(tree[1].children, Action(ROLL, 0), 0)]
       IN /\ roll.state.dice_throw # <<>>
          /\ roll.N >= 3
          /\ Len(roll.children) >= 1

\* run returns.
RunReturns == mode = "run" /\ pc = "loop" /\ pc' = "idle" /\ outcome' = "returned"

\* C16: when run returns, the list holds one result per entry of the root's
\* children, in their order: the entry's action, visit_count the child's N,
\* expected_score the child's Q / N when N > 0 and 0 otherwise, and as
\* history the records logged for that action during the call.
C16_RunResults ==
    [][RunReturns =>
        /\ Len(results') = Len(tree[1].children)
        /\ \A k \in 1..Len(tree[1].children) :
              LET entry == tree[1].children[k]
                  child == tree[entry.value]
                  r == results'[k]
              IN /\ r.action = entry.key
                 /\ r.visit_count = child.N
                 /\ r.expected_score[2] > 0
                 /\ r.expected_score[1] * child.N = child.Q * r.expected_score[2]
                 /\ child.N = 0 => r.expected_score[1] = 0
                 /\ r.history =
                       IF \E h \in 1..Len(history_log) : history_log[h].key = entry.key
                       THEN history_log[CHOOSE h \in 1..Len(history_log) :
                                           history_log[h].key = entry.key].value
                       ELSE <<>>
      ]_vars

C16_Witness ==
    /\ pc = "idle"
    /\ mode = "run"
    /\ outcome = "returned"
    /\ Len(results) = 2
    /\ results[1].visit_count + results[2].visit_count = 4
    /\ results[1].visit_count = 3
    /\ results[1].expected_score = <<9, 1>>
    /\ Len(results[1].history) = 2
    /\ Len(results[2].history) = 2
    /\ results[2].history[2].simulations = 4

\* C17: an engine holds no pool until run_parallel is first called;
\* run_parallel creates a pool only when none is held, so the pools alive are
\* the one the engine holds; the pool is released only by close(), which
\* changes nothing else and nothing at all when no pool is held; a call of
\* run_parallel holds the pool throughout and keeps it when it returns or
\* raises.
C17_PoolLifecycle ==
    /\ ~pool
    /\ [](live_pools = IF pool THEN 1 ELSE 0)
    /\ []((mode = "run_parallel" /\ pc # "idle") => pool)
    /\ [][/\ (~pool /\ pool') =>
               (pc = "idle" /\ pc' = "batch" /\ mode' = "run_parallel")
          /\ (pool /\ pc = "idle" /\ pc' = "batch") => live_pools' = live_pools
          /\ (pool /\ ~pool') =>
               /\ pc = "idle" /\ pc' = "idle"
               /\ live_pools' = live_pools - 1
               /\ UNCHANGED <<tree, callVars, i, history_log, node_to_simulate,
                              rollout_state, batchVars, outcome, results>>
          /\ (pc # "idle" /\ pc' = "idle") => pool' = pool
         ]_vars

\* The pool of a call of run_parallel that raised has been closed.
C17_Witness ==
    /\ pc = "idle"
    /\ mode = "run_parallel"
    /\ outcome = "raised"
    /\ root_N_at_call > 0
    /\ tree[1].N > root_N_at_call
    /\ ~pool
    /\ live_pools = 0

\* ceil(n / b)
Ceil(n, b) == (n + b - 1) \div b

\* C18: run_parallel(n, b) with b >= 1 performs n cycles in ceil(n / b)
\* batches: every batch dispatched has b slots, or fewer when it is the last
\* and completes the n; at each batch boundary the root's N has grown by the
\* simulations of the batches done, and by n when the call ends.
C18_ParallelBudget ==
    mode = "run_parallel" =>
    /\ batch_size >= 1
    /\ pc \in {"map", "backprop"} =>
          /\ i % batch_size = 0
          /\ i < num_simulations
          /\ Len(nodes_to_update) \in 1..batch_size
          /\ Len(simulation_states) = Len(nodes_to_update)
          /\ Len(nodes_to_update) = batch_size
                \/ i + Len(nodes_to_update) = num_simulations
    /\ pc = "backprop" => tree[1].N = root_N_at_call + i + (j - 1)
    /\ pc = "batch" =>
          /\ i % batch_size = 0
          /\ tree[1].N = root_N_at_call + Min(i, num_simulations)
    /\ (pc = "idle" /\ outcome # "none") =>
          /\ i = batch_size * Ceil(num_simulations, batch_size)
          /\ tree[1].N = root_N_at_call + num_simulations

\* A later call with a batch size that does not divide the budget.
C18_Witness ==
    /\ mode = "run_parallel"
    /\ pc = "idle"
    /\ outcome = "returned"
    /\ num_simulations = 3
    /\ batch_size = 2
    /\ i = 4
    /\ root_N_at_call = 1
    /\ tree[1].N = 4

\* A worker of the batch in flight has raised.
WorkerFailed == pc = "map" /\ \E c \in 1..Len(completed) : completed[c].failed

\* C19: when a rollout raises in a worker, run_parallel ends at that
\* pool.map by raising: from the failure on no node's N or Q changes, no
\* node is added, no slot is dispatched again and no score list is produced,
\* and the call ends with no result list; a call that failed returned nothing.
C19_WorkerFailureRaises ==
    /\ [](outcome = "failed" => results = <<>>)
    /\ [][WorkerFailed =>
            /\ tree' = tree
            /\ pending' \subseteq pending
            /\ pc' \in {"map", "idle"}
            /\ pc' = "map" =>
                  /\ scores' = scores
                  /\ nodes_to_update' = nodes_to_update
                  /\ simulation_states' = simulation_states
                  /\ Len(completed') <= Len(simulation_states)
            /\ pc' = "idle" =>
                  /\ pending = {}
                  /\ outcome' = "failed"
                  /\ results' = <<>>
         ]_vars

\* A call failed in its second batch: the first batch is backpropagated, the
\* nodes the second expanded stay unvisited.
C19_Witness ==
    /\ pc = "idle"
    /\ outcome = "failed"
    /\ mode = "run_parallel"
    /\ i > 0
    /\ tree[1].N = root_N_at_call + i
    /\ tree[1].N < root_N_at_call + num_simulations
    /\ \E n \in Nodes : tree[n].N = 0
    /\ pool

\* The records logged for an action, none when it has no entry.
HistoryOf(log, action) ==
    IF \E h \in 1..Len(log) : log[h].key = action
    THEN log[CHOOSE h \in 1..Len(log) : log[h].key = action].value
    ELSE <<>>

\* The end of simulation i of run.
RunSimulationEnds == mode = "run" /\ pc = "simulate" /\ pc' = "loop"

\* C20: at the end of a simulation i of run(n, k) with i a multiple of k, one
\* record {simulations: i, expected_score: Q / N} is appended to the history
\* of each root child with N > 0, and nothing to any other history; at the end
\* of any other simulation nothing is logged.  Within a call the histories
\* change in no other way, and in each of them the simulation counts are
\* strictly increasing multiples of k, at most n.
C20_HistoryRecords ==
    /\ [](mode = "run" =>
            \A h \in 1..Len(history_log) :
               LET records == history_log[h].value
               IN /\ history_log[h].key \in ChildKeys(tree[1])
                  /\ \A r \in 1..Len(records) :
                        /\ records[r].simulations % monitor_interval = 0
                        /\ records[r].simulations \in 1..num_simulations
                        /\ r > 1 => records[r].simulations
                                      > records[r - 1].simulations)
    /\ [][/\ RunSimulationEnds =>
               IF i % monitor_interval = 0
               THEN /\ \A k \in 1..Len(tree'[1].children) :
                          LET entry == tree'[1].children[k]
                              child == tree'[entry.value]
                              old == HistoryOf(history_log, entry.key)
                              new == HistoryOf(history_log', entry.key)
                          IN IF child.N > 0
                             THEN /\ Len(new) = Len(old) + 1
                                  /\ SubSeq(new, 1, Len(old)) = old
                                  /\ new[Len(new)].simulations = i
                                  /\ new[Len(new)].expected_score[2] > 0
                                  /\ new[Len(new)].expected_score[1] * child.N
                                        = child.Q * new[Len(new)].expected_score[2]
                             ELSE new = old
                    /\ \A h \in 1..Len(history_log') :
                          history_log'[h].key \in ChildKeys(tree'[1])
               ELSE history_log' = history_log
          /\ (~RunSimulationEnds /\ pc # "idle" /\ pc' # "idle") =>
               history_log' = history_log
         ]_vars

\* After simulation 4 of a run with k = 2: two records for each of two
\* actions.
C20_Witness ==
    /\ mode = "run"
    /\ pc = "loop"
    /\ monitor_interval = 2
    /\ i = 5
    /\ Len(history_log) = 2
    /\ Len(history_log[1].value) = 2
    /\ Len(history_log[2].value) = 2
    /\ history_log[1].value[2].simulations = 4
    /\ history_log[2].value[1].simulations = 2

\* The fields of a ResultAction.
ResultFields == {"expected_score", "action", "visit_count", "history"}

\* C21: every result run_parallel returns carries the fields of a result of
\* run: action, expected_score, visit_count and history.
C21_ParallelResultFields ==
    (pc = "idle" /\ outcome = "returned" /\ mode = "run_parallel") =>
    \A k \in 1..Len(results) : DOMAIN results[k] = ResultFields

\* The visit counts and averages of a result list.
ResultSet(r) ==
    {<<r[k].action, r[k].visit_count, r[k].expected_score>> : k \in 1..Len(r)}

\* C22: two first calls of the same method with the same budget (and batch
\* size) on the same initial state, made with the same random draws (the
\* expansion choices, the rollout choices and the outcomes sampled, in the
\* controller and in the workers), end alike and return the same actions,
\* visit counts and averages, in whatever order the workers return.
C22_Determinism ==
    (/\ reference.set
     /\ FirstCallEnded
     /\ mode = reference.mode
     /\ num_simulations = reference.num_simulations
     /\ batch_size = reference.batch_size
     /\ draws = reference.draws) =>
    /\ outcome = reference.outcome
    /\ ResultSet(results) = ResultSet(reference.results)

\* A run_parallel call of two batches, the first of two slots, is repeated
\* with the same draws.
C22_Witness ==
    /\ reference.set
    /\ FirstCallEnded
    /\ mode = "run_parallel"
    /\ reference.mode = "run_parallel"
    /\ num_simulations = 3
    /\ reference.num_simulations = 3
    /\ batch_size = 2
    /\ reference.batch_size = 2
    /\ draws = reference.draws
    /\ outcome = "returned"
    /\ Len(results) = 2
    /\ results[1].expected_score # results[2].expected_score

\* _select is about to run: a simulation of run or run_sequential, or a slot
\* of a batch of run_parallel, begins.
Selecting ==
    \/ pc = "loop" /\ i <= num_simulations
    \/ pc = "prepare" /\ Len(nodes_to_update) < batch_size_actual

\* The entries of the children of node n that _select considers.
Candidates(n) ==
    {k \in 1..Len(tree[n].children) :
        ~is_terminal_node(tree[tree[n].children[k].value])}

\* The node of entry k of the children of n, and its UCB1 score.
ChildAt(n, k) == tree[n].children[k].value
ScoreAt(n, k) == Ucb(tree[ChildAt(n, k)], tree[n])

\* C23: at a fully expanded non-terminal node with a non-terminal child,
\* _select descends to a non-terminal child whose UCB1 score no non-terminal
\* sibling exceeds, and which comes first among those of equal score; a
\* child with N = 0 scores infinity, above every visited sibling, so that an
\* unvisited candidate is chosen when there is one.
C23_SelectBestChild ==
    Selecting =>
    \A n \in Nodes :
        (is_fully_expanded(tree[n]) /\ ~is_terminal_node(tree[n])
            /\ Candidates(n) # {}) =>
        LET best == BestChild(tree, n, Len(tree[n].children)).best_child
            score == [k \in Candidates(n) |-> ScoreAt(n, k)]
        IN \E b \in Candidates(n) :
              /\ best = ChildAt(n, b)
              /\ \A k \in Candidates(n) :
                    /\ ~UcbGreater(score[k], score[b])
                    /\ ~UcbGreater(score[b], score[k]) => b <= k
                    /\ tree[ChildAt(n, k)].N = 0 =>
                          /\ score[k] = Inf
                          /\ tree[best].N = 0
                    /\ tree[ChildAt(n, k)].N > 0 => UcbGreater(Inf, score[k])

\* Two candidates of equal score, and elsewhere none; an unvisited candidate
\* inserted after a visited one.
C23_Witness ==
    /\ Candidates(1) = {1, 2}
    /\ is_fully_expanded(tree[1])
    /\ tree[ChildAt(1, 1)].N = 1
    /\ tree[ChildAt(1, 2)].N = 0
    /\ Selecting

C23_WitnessTie ==
    /\ Candidates(1) = {1, 2}
    /\ is_fully_expanded(tree[1])
    /\ tree[ChildAt(1, 1)].N = 1
    /\ tree[ChildAt(1, 2)].N = 1
    /\ ScoreAt(1, 1) = ScoreAt(1, 2)
    /\ Selecting

\* A step that runs _select and _expand: steps 1 and 2 of a simulation or of
\* a slot.
SelectStep ==
    \/ pc = "loop" /\ pc' = "simulate"
    \/ pc = "prepare" /\ Len(nodes_to_update') > Len(nodes_to_update)

\* C24: the node _select returns is not fully expanded, or terminal, or
\* fully expanded without a non-terminal child; each of its proper ancestors
\* is fully expanded and not terminal.  _select changes nothing: the step
\* that runs it leaves every node but the returned one as it was, the N and
\* Q of the returned one too, and goes on from that node or from the child
\* _expand gave it.
C24_SelectReturns ==
    /\ [](Selecting =>
            LET leaf == _select(tree)
            IN /\ \/ ~is_fully_expanded(tree[leaf])
                  \/ is_terminal_node(tree[leaf])
                  \/ Candidates(leaf) = {}
               /\ \A a \in Chain(tree, leaf) \ {leaf} :
                     is_fully_expanded(tree[a]) /\ ~is_terminal_node(tree[a]))
    /\ [][SelectStep =>
            LET leaf == _select(tree)
            IN /\ \A m \in Nodes \ {leaf} : tree'[m] = tree[m]
               /\ tree'[leaf].N = tree[leaf].N
               /\ tree'[leaf].Q = tree[leaf].Q
               /\ tree'[leaf].state = tree[leaf].state
               /\ tree'[leaf].parent = tree[leaf].parent
               /\ \/ ExpandReturned = leaf /\ tree' = tree
                  \/ /\ ExpandReturned = Len(tree) + 1
                     /\ tree'[ExpandReturned].parent = leaf
         ]_vars

\* _select has descended two levels, to a node that is not fully expanded.
C24_Witness ==
    /\ pc = "simulate"
    /\ tree[node_to_simulate].parent # 0
    /\ tree[tree[node_to_simulate].parent].parent # 0
    /\ tree[tree[tree[node_to_simulate].parent].parent].parent # 0
    /\ tree[node_to_simulate].N = 0

\* C29: whenever _select can evaluate the UCB1 formula, at a fully expanded
\* non-terminal node for a non-terminal child with N > 0, the N of the node
\* is at least the N of the child and at least 1; in the sequential engines
\* and at every slot of a batch of run_parallel, where the scores of the
\* slots before are not yet backpropagated.
C29_LogDefined ==
    Selecting =>
    \A n \in Nodes :
        (is_fully_expanded(tree[n]) /\ ~is_terminal_node(tree[n])) =>
        \A k \in Candidates(n) :
            tree[ChildAt(n, k)].N > 0 =>
            /\ tree[n].N >= tree[ChildAt(n, k)].N
            /\ tree[n].N >= 1

\* The second slot of a batch: the first slot has expanded a node that is
\* not yet visited, below a visited child of the fully expanded root.
C29_Witness ==
    /\ pc = "prepare"
    /\ Len(nodes_to_update) = 1
    /\ batch_size_actual = 2
    /\ is_fully_expanded(tree[1])
    /\ \E k \in Candidates(1) :
          /\ tree[ChildAt(1, k)].N > 0
          /\ \E g \in Nodes : tree[g].parent = ChildAt(1, k) /\ tree[g].N = 0

\* The states a rollout from s passes through, s included.
RolloutStates(s) == Reach({s}, {})

\* The game states of the engine: those of the nodes, that of the rollout in
\* progress and those handed to the workers.
GameStatesInPlay ==
    {u \in {tree[n].state : n \in Nodes}
            \cup (IF pc = "simulate" THEN {rollout_state} ELSE {})
            \cup Range(simulation_states) : u.kind = "GameState"}

\* C25: every rollout from a GameState with at most N_DICE dice in hand
\* ends, whatever the random choices: no state of the rollout can be reached
\* again from itself by legal actions, so every sequence of legal actions is
\* finite and ends in a stopped state.
C25_RolloutTerminates ==
    \A s \in GameStatesInPlay :
        Len(s.hand) <= N_DICE =>
        \A u \in RolloutStates(s) :
            /\ u \notin Reach(RolloutNext(u), {})
            /\ RolloutEnd(u) => u.stopped_round

\* C26: a rollout from a non-terminal node returns a score that is at least
\* the score of the node's state.
C26_ScoreNotDecreased ==
    [][(BackpropStep /\ ~is_terminal_node(tree[BackpropNode])) =>
          BackpropScore >= tree[BackpropNode].state.score]_vars

\* A rollout of _simulate from a non-terminal node has ended in a bust.
C26_Witness ==
    /\ pc = "simulate"
    /\ mode = "run"
    /\ RolloutEnd(rollout_state)
    /\ ~is_terminal_node(tree[node_to_simulate])
    /\ rollout_state.kind = "GameState"
    /\ rollout_state.stopped_round
    /\ rollout_state.dice_throw # <<>>
    /\ rollout_state.score = 0

\* The sum of the weights of the first k rolls.
RECURSIVE WeightSum(_, _)
WeightSum(rolls, k) == IF k = 0 THEN 0 ELSE rolls[k].weight + WeightSum(rolls, k - 1)

\* C27: whenever ROLL is a legal action of a state, get_possible_rolls of the
\* state is a non-empty list of distinct sorted rolls of d = N_DICE -
\* len(hand) dice, whose weights add up to 6^d: the probabilities add up to 1.
C27_PossibleRolls ==
    \A s \in GameStatesInPlay :
        Action(ROLL, 0) \in Range(get_available_actions(s)) =>
        LET rolls == get_possible_rolls(s)
        IN /\ rolls # <<>>
           /\ \A k \in 1..Len(rolls) :
                 /\ rolls[k].roll = Sorted(rolls[k].roll)
                 /\ Len(rolls[k].roll) = N_DICE - Len(s.hand)
                 /\ rolls[k].total = Power(6, N_DICE - Len(s.hand))
           /\ \A k, h \in 1..Len(rolls) : k # h => rolls[k].roll # rolls[h].roll
           /\ WeightSum(rolls, Len(rolls)) = Power(6, N_DICE - Len(s.hand))

\* A call has ended by returning or by the raise for a childless root.
CallEnded == pc = "idle" /\ outcome \in {"returned", "raised"}

\* C28: a call of run, run_parallel or run_sequential raises exactly when the
\* root has no child once the budget is spent.  On a root with a legal action
\* (a terminal root has none to expand) a call with a budget of at least 1 returns a non-empty list;
\* a call with budget 0 on a fresh engine raises; and when a call raises on
\* a terminal root, the root's N has grown by the budget.
C28_RaiseWithoutChildren ==
    CallEnded =>
    /\ outcome = "raised" <=> Len(tree[1].children) = 0
    /\ outcome = "returned" => results # <<>>
    /\ (~is_terminal_node(tree[1]) /\ get_available_actions(tree[1].state) # <<>>
          /\ num_simulations >= 1) => outcome = "returned"
    /\ (num_simulations = 0 /\ Len(tree) = 1) => outcome = "raised"
    /\ (outcome = "raised" /\ is_terminal_node(tree[1])) =>
          tree[1].N = root_N_at_call + num_simulations

\* A later call on a terminal root has raised after 2 simulations.
C28_Witness ==
    /\ CallEnded
    /\ outcome = "raised"
    /\ is_terminal_node(tree[1])
    /\ num_simulations = 2
    /\ root_N_at_call = 1
    /\ tree[1].N = 3
    /\ mode = "run_parallel"

\* C30: after every completed simulation of run and run_sequential and after
\* every completed batch of run_parallel, every node but the root has
\* N >= 1; so every result returned has visit_count >= 1.
C30_NodesVisited ==
    /\ SimulationsCompleted => \A n \in Nodes \ {1} : tree[n].N >= 1
    /\ (pc = "idle" /\ outcome = "returned") =>
          \A k \in 1..Len(results) : results[k].visit_count >= 1

\* A batch of two slots that expanded two nodes has been backpropagated.
C30_Witness ==
    /\ pc = "batch"
    /\ batch_size = 2
    /\ i = 2
    /\ root_N_at_call = 1
    /\ Len(tree) = 4
    /\ tree[3].N = 1
    /\ tree[4].N = 1

\* Node n is fully expanded, not terminal, and all its children are terminal.
AllChildrenTerminal(n) ==
    /\ is_fully_expanded(tree[n])
    /\ ~is_terminal_node(tree[n])
    /\ Len(tree[n].children) >= 1
    /\ Candidates(n) = {}

\* C31: _select returns a terminal node only if it is the root.  A terminal
\* node other than the root is never descended into: it has no child, it is
\* visited at most once, in the simulation or batch that created it, and its
\* Q is then its state's score.  A selection that reaches a node whose
\* children are all terminal returns that node, _expand adds nothing, the
\* rollout starts from it, and its score goes to it and its ancestors only.
C31_TerminalChildrenSkipped ==
    /\ []((Selecting /\ is_terminal_node(tree[_select(tree)])) =>
            _select(tree) = 1)
    /\ [](\A n \in Nodes \ {1} :
            is_terminal_node(tree[n]) =>
            /\ Len(tree[n].children) = 0
            /\ tree[n].N \in {0, 1}
            /\ tree[n].Q = tree[n].N * tree[n].state.score)
    /\ [][SelectStep =>
            LET leaf == _select(tree)
            IN AllChildrenTerminal(leaf) =>
                  /\ ExpandReturned = leaf
                  /\ tree' = tree
         ]_vars
    /\ [][BackpropStep =>
            \A n \in Nodes :
                /\ tree'[n] # tree[n] => n \in Chain(tree, BackpropNode)
                /\ (n # 1 /\ is_terminal_node(tree[n]) /\ tree'[n] # tree[n]) =>
                      /\ n = BackpropNode
                      /\ tree[n].N = 0
         ]_vars

\* A rollout starts from a node below the root whose only child is terminal
\* and was visited once, in an earlier simulation.
C31_Witness ==
    /\ pc = "simulate"
    /\ node_to_simulate # 1
    /\ AllChildrenTerminal(node_to_simulate)
    /\ tree[node_to_simulate].N >= 2
    /\ tree[ChildAt(node_to_simulate, 1)].N = 1

====
